---- MODULE Spec2Model ----
(***************************************************************************)
(* A model of fmsxml.py: the FMS class (read_fms, check_empty_strings,     *)
(* write_fms, write_xml, read_xml), the two escaping helpers, and the      *)
(* module-level drivers fms_to_xml, xml_to_fms, fms_to_xml_roundtrip_test. *)
(*                                                                         *)
(* A .fms file is a sequence of bytes (integers 0..255).  A Python str is  *)
(* a sequence of code points.  An .xml file is the element tree that       *)
(* ElementTree builds from it, every element holding the raw character     *)
(* data that stands between its tags.                                      *)
(***************************************************************************)
EXTENDS Integers, Sequences, FiniteSets, TLC

VARIABLES
    heap,       \* the FMS objects: heap.someFMS, heap.anotherFMS
    disk,       \* the files: disk.infile (.fms), disk.xmlfile, disk.outfile (.fms)
    pc,         \* position of the driver
    exc,        \* the exception that ended the driver, or NoException
    frame,      \* locals of the last read_fms call (see NoFrame)
    instring,   \* escaping helpers: the argument
    escaped,    \* escaping helpers: escape_for_xml(instring)
    unescaped,  \* escaping helpers: unescape_from_xml(escaped)
    calls       \* the method calls a caller has made one after the other on
                \* heap.someFMS, going on after an exception (see Call)

vars == <<heap, disk, pc, exc, frame, instring, escaped, unescaped, calls>>

-----------------------------------------------------------------------------
(* Bounds of the model *)

\* most strings in a generated .fms document
MaxStrings == 3
\* most <stringdata> records in a hand-written .xml input
MaxRecords == 3
\* longest argument given to the escaping helpers
MaxEscLen == 4

-----------------------------------------------------------------------------
(* Characters and byte strings *)

Min(a, b) == IF a < b THEN a ELSE b

\* "&", "<", ">", the double quote, the apostrophe and the newline
ChAmp == 38
ChLt == 60
ChGt == 62
ChQuot == 34
ChApos == 39
ChNewline == 10

\* the six entities, as the code writes them
EntAmp == <<38, 97, 109, 112, 59>>
EntLt == <<38, 108, 116, 59>>
EntGt == <<38, 103, 116, 59>>
EntQuot == <<38, 113, 117, 111, 116, 59>>
EntApos == <<38, 97, 112, 111, 115, 59>>
EntNewline == <<38, 35, 120, 65, 59>>

\* s.startswith(p)
StartsWith(s, p) == Len(s) >= Len(p) /\ SubSeq(s, 1, Len(p)) = p

\* str.replace(old, new): every non-overlapping occurrence, leftmost first
RECURSIVE Replace(_, _, _)
Replace(s, old, new) ==
    IF Len(s) < Len(old) THEN s
    ELSE IF StartsWith(s, old)
         THEN new \o Replace(SubSeq(s, Len(old) + 1, Len(s)), old, new)
         ELSE <<Head(s)>> \o Replace(Tail(s), old, new)

escape_for_xml(s) ==
    LET s1 == Replace(s, <<ChAmp>>, EntAmp)
        s2 == Replace(s1, <<ChLt>>, EntLt)
        s3 == Replace(s2, <<ChGt>>, EntGt)
        s4 == Replace(s3, <<ChQuot>>, EntQuot)
        s5 == Replace(s4, <<ChApos>>, EntApos)
    IN  Replace(s5, <<ChNewline>>, EntNewline)

unescape_from_xml(s) ==
    LET s1 == Replace(s, EntAmp, <<ChAmp>>)
        s2 == Replace(s1, EntLt, <<ChLt>>)
        s3 == Replace(s2, EntGt, <<ChGt>>)
        s4 == Replace(s3, EntQuot, <<ChQuot>>)
        s5 == Replace(s4, EntApos, <<ChApos>>)
    IN  Replace(s5, EntNewline, <<ChNewline>>)

-----------------------------------------------------------------------------
(* The FMS object and the exceptions *)

MagicFMSB == <<70, 77, 83, 66>>
MagicFEOC == <<70, 69, 79, 67>>

\* FMS.__init__
NewFMS ==
    [filesize |-> 0, headermagicword |-> 0, datasize |-> 0, headersize |-> 0,
     unknown1 |-> 0, unknown2 |-> 0, stringcount |-> 0, unknown3 |-> 0,
     unknown4 |-> 0, prop1list |-> <<>>, prop2list |-> <<>>, stringdata |-> <<>>,
     footermagicword |-> 0, unknown5 |-> 0, footersize |-> 0, unknown6 |-> 0,
     validflag |-> FALSE, zerocounts |-> <<>>, skips |-> <<>>]

NoException == [type |-> "None", msg |-> ""]
Exception(type, msg) == [type |-> type, msg |-> msg]

\* the locals of the last read_fms call that the properties speak about
NoFrame ==
    [scanned |-> FALSE, stringsread |-> 0, bytesread |-> 0, offsets |-> {},
     expectedpadding |-> 0]

\* how a method call ends: the object as it was left, the exception raised (or
\* NoException), the file it wrote if any, and read_fms's locals
Outcome(o, e, fr) == [obj |-> o, exc |-> e, frame |-> fr]

-----------------------------------------------------------------------------
(* Binary files *)

\* infile.read(n) with the stream at position pos: short at the end of the file
FileRead(B, pos, n) == SubSeq(B, pos + 1, Min(pos + n, Len(B)))

\* infile.tell() after that read
FileTell(B, pos, n) == Min(pos + n, Len(B))

\* int.from_bytes(bs, "little", signed=False); 0 for the empty bytes object
RECURSIVE from_bytes(_)
from_bytes(bs) == IF bs = <<>> THEN 0 ELSE Head(bs) + 256 * from_bytes(Tail(bs))

\* v.to_bytes(n, byteorder="little", signed=False), for 0 <= v < 256^n
RECURSIVE to_bytes(_, _)
to_bytes(v, n) == IF n = 0 THEN <<>> ELSE <<v % 256>> \o to_bytes(v \div 256, n - 1)

\* to_bytes raises OverflowError outside that range, 0 <= v < 65536 * 65536
Fits32(v) == v >= 0 /\ v \div 65536 < 65536

\* lines 116-122: the property table, appended to the object's lists
RECURSIVE ReadProps(_, _, _, _, _)
ReadProps(B, pos, todo, p1, p2) ==
    IF todo = 0 THEN [prop1list |-> p1, prop2list |-> p2, pos |-> pos]
    ELSE ReadProps(B, FileTell(B, FileTell(B, pos, 4), 4), todo - 1,
                   Append(p1, from_bytes(FileRead(B, pos, 4))),
                   Append(p2, from_bytes(FileRead(B, FileTell(B, pos, 4), 4))))

\* a variant: the byte budget tested with <= instead of <
ScanContinueOffByOne(stringsread, stringcount, bytesread, datasize) ==
    stringsread < stringcount /\ bytesread <= datasize

\* line 128: the condition of the segmentation loop
ScanContinue(stringsread, stringcount, bytesread, datasize) ==
    stringsread < stringcount /\ bytesread < datasize

\* lines 125-135: the segmentation loop.  offsets collects the offset, counted
\* from the end of the 32-byte header, of every byte the loop reads.
RECURSIVE ScanStrings(_, _, _, _, _, _, _, _, _)
ScanStrings(B, pos, stringcount, datasize, stringsread, bytesread, tempbuffer, stringdata, offsets) ==
    IF ~ScanContinue(stringsread, stringcount, bytesread, datasize)
    THEN [stringdata |-> stringdata, stringsread |-> stringsread,
          bytesread |-> bytesread, pos |-> pos, offsets |-> offsets]
    ELSE LET somebyte == B[pos + 1]
         IN  IF somebyte = 0
             THEN ScanStrings(B, pos + 1, stringcount, datasize, stringsread + 1,
                              bytesread + 1, <<>>,
                              Append(stringdata, Append(tempbuffer, somebyte)),
                              offsets \cup {pos - 32})
             ELSE ScanStrings(B, pos + 1, stringcount, datasize, stringsread,
                              bytesread + 1, Append(tempbuffer, somebyte),
                              stringdata, offsets \cup {pos - 32})

\* lines 144-148: padding expected up to the next 16-byte boundary
ExpectedPadding(currentposition) ==
    LET overage == currentposition % 16
    IN  IF overage # 0 THEN 16 - overage ELSE 0

\* line 152: a padding byte passes; reading past the end of the file gives b""
PaddingByteOk(B, p) == IF p < Len(B) THEN B[p + 1] = 0 ELSE TRUE

\* lines 92, 97, 105, 110, 165, 174: the test before the print that names an
\* undefined variable (unknown1 for self.unknown1, and so on)
ReservedUnexpected(value, expected) == value # expected

\* lines 159-181 of read_fms: the footer
ReadFooter(o, B, pos, fr) ==
    LET o1 == [o EXCEPT !.footermagicword = FileRead(B, pos, 4)] IN
    IF o1.footermagicword # MagicFEOC
    THEN Outcome(o1, Exception("AssertionError", "Footer magic word not found where expected."), fr)
    ELSE
    LET o2 == [o1 EXCEPT !.unknown5 = from_bytes(FileRead(B, pos + 4, 4))] IN
    IF ReservedUnexpected(o2.unknown5, 0)
    THEN Outcome(o2, Exception("NameError", "name 'unknown5' is not defined"), fr)
    ELSE
    LET o3 == [o2 EXCEPT !.footersize = from_bytes(FileRead(B, pos + 8, 4))] IN
    IF o3.footersize # 16
    THEN Outcome(o3, Exception("AssertionError", "Footer size is not 16. I don't know how to parse this. Maybe bad file."), fr)
    ELSE
    LET o4 == [o3 EXCEPT !.unknown6 = from_bytes(FileRead(B, pos + 12, 4))] IN
    IF ReservedUnexpected(o4.unknown6, 0)
    THEN Outcome(o4, Exception("NameError", "name 'unknown6' is not defined"), fr)
    ELSE
    IF FileTell(B, pos, 16) # o4.filesize
    THEN Outcome(o4, Exception("AssertionError", "End of file not where expected."), fr)
    ELSE Outcome([o4 EXCEPT !.validflag = TRUE], NoException, fr)

\* lines 116-157 of read_fms: the data section
ReadData(o, B) ==
    LET props == ReadProps(B, 32, o.stringcount, o.prop1list, o.prop2list)
        sc == ScanStrings(B, props.pos, o.stringcount, o.datasize, 0,
                          8 * o.stringcount, <<>>, o.stringdata, {})
        o1 == [o EXCEPT !.prop1list = props.prop1list,
                        !.prop2list = props.prop2list,
                        !.stringdata = sc.stringdata]
        expectedpadding == ExpectedPadding(sc.pos)
        fr == [scanned |-> TRUE, stringsread |-> sc.stringsread,
               bytesread |-> sc.bytesread, offsets |-> sc.offsets,
               expectedpadding |-> expectedpadding]
        bytesread == sc.bytesread + expectedpadding
    IN
    IF o.stringcount # sc.stringsread
    THEN Outcome(o1, Exception("AssertionError", "Did not read expected number of strings."), fr)
    ELSE
    IF \E i \in 0 .. expectedpadding - 1 : ~PaddingByteOk(B, sc.pos + i)
    THEN Outcome(o1, Exception("AssertionError", "Found non-zero byte in expected padding"), fr)
    ELSE
    IF bytesread # o.datasize
    THEN Outcome(o1, Exception("AssertionError", "Did not read expected number of bytes."), fr)
    ELSE ReadFooter(o1, B, FileTell(B, sc.pos, expectedpadding), fr)

\* FMS.read_fms, applied to object o and the bytes B of the file
read_fms_call(o, B) ==
    LET o1 == [o EXCEPT !.filesize = Len(B), !.headermagicword = FileRead(B, 0, 4)] IN
    IF o1.headermagicword # MagicFMSB
    THEN Outcome(o1, Exception("AssertionError", "Magic word not found in header. Not a FMS file."), NoFrame)
    ELSE
    LET o2 == [o1 EXCEPT !.datasize = from_bytes(FileRead(B, 4, 4))] IN
    IF o2.filesize - 48 # o2.datasize
    THEN Outcome(o2, Exception("AssertionError", "File size does not match data size reported in header. Bad file."), NoFrame)
    ELSE
    LET o3 == [o2 EXCEPT !.headersize = from_bytes(FileRead(B, 8, 4))] IN
    IF o3.headersize # 32
    THEN Outcome(o3, Exception("AssertionError", "Header size is not 32. I don't know how to parse this. Maybe bad file."), NoFrame)
    ELSE
    LET o4 == [o3 EXCEPT !.unknown1 = from_bytes(FileRead(B, 12, 4))] IN
    IF ReservedUnexpected(o4.unknown1, 0)
    THEN Outcome(o4, Exception("NameError", "name 'unknown1' is not defined"), NoFrame)
    ELSE
    LET o5 == [o4 EXCEPT !.unknown2 = from_bytes(FileRead(B, 16, 4))] IN
    IF ReservedUnexpected(o5.unknown2, 0)
    THEN Outcome(o5, Exception("NameError", "name 'unknown2' is not defined"), NoFrame)
    ELSE
    LET o6 == [o5 EXCEPT !.stringcount = from_bytes(FileRead(B, 20, 4)),
                         !.unknown3 = from_bytes(FileRead(B, 24, 4))] IN
    IF ReservedUnexpected(o6.unknown3, 3)
    THEN Outcome(o6, Exception("NameError", "name 'unknown3' is not defined"), NoFrame)
    ELSE
    LET o7 == [o6 EXCEPT !.unknown4 = from_bytes(FileRead(B, 28, 4))] IN
    IF ReservedUnexpected(o7.unknown4, 0)
    THEN Outcome(o7, Exception("NameError", "name 'unknown4' is not defined"), NoFrame)
    ELSE ReadData(o7, B)

-----------------------------------------------------------------------------
(* check_empty_strings and write_fms *)

\* line 194: emptysample, a list holding the one byte 0x00
emptysample == <<0>>

\* a variant: the length of a run is added to what zerocounts holds
CloseRunAdding(zerocounts, firstindex, emptycount) ==
    [zerocounts EXCEPT ![firstindex + 1] = @ + emptycount]

\* lines 210 and 215: self.zerocounts[firstindex] = emptycount
CloseRun(zerocounts, firstindex, emptycount) ==
    [zerocounts EXCEPT ![firstindex + 1] = emptycount]

\* lines 195-212: the loop body for index i (0-based), on the loop's state
\* st = [zerocounts, skips, countingstate, firstindex, emptycount]
CheckEmptyStep(st, stringdata, i) ==
    LET z == Append(st.zerocounts, 0) IN
    IF stringdata[i + 1] = emptysample
    THEN IF ~st.countingstate
         THEN [st EXCEPT !.zerocounts = z, !.emptycount = st.emptycount + 1,
                         !.countingstate = TRUE, !.firstindex = i,
                         !.skips = Append(st.skips, FALSE)]
         ELSE [st EXCEPT !.zerocounts = z, !.emptycount = st.emptycount + 1,
                         !.skips = Append(st.skips, TRUE)]
    ELSE IF st.countingstate
         THEN [st EXCEPT !.zerocounts = CloseRun(z, st.firstindex, st.emptycount),
                         !.skips = Append(st.skips, FALSE),
                         !.countingstate = FALSE, !.firstindex = -1,
                         !.emptycount = 0]
         ELSE [st EXCEPT !.zerocounts = z, !.skips = Append(st.skips, FALSE)]

RECURSIVE CheckEmptyLoop(_, _, _, _)
CheckEmptyLoop(st, stringdata, i, stringcount) ==
    IF i >= stringcount THEN [st |-> st, exc |-> NoException]
    ELSE IF i + 1 > Len(stringdata)
         THEN [st |-> [st EXCEPT !.zerocounts = Append(st.zerocounts, 0)],
               exc |-> Exception("IndexError", "list index out of range")]
         ELSE CheckEmptyLoop(CheckEmptyStep(st, stringdata, i), stringdata, i + 1,
                             stringcount)

\* FMS.check_empty_strings
check_empty_strings_call(o) ==
    IF ~o.validflag
    THEN Outcome(o, Exception("AssertionError", "This object has not been initialized with valid data."), NoFrame)
    ELSE
    LET r == CheckEmptyLoop([zerocounts |-> o.zerocounts, skips |-> o.skips,
                             countingstate |-> FALSE, firstindex |-> -1,
                             emptycount |-> 0],
                            o.stringdata, 0, o.stringcount)
        st == r.st
        z == IF r.exc = NoException /\ st.countingstate
             THEN CloseRun(st.zerocounts, st.firstindex, st.emptycount)
             ELSE st.zerocounts
    IN  Outcome([o EXCEPT !.zerocounts = z, !.skips = st.skips], r.exc, NoFrame)

\* one outfile.write(...): the bytes it adds, or the exception it raises
Chunk(bytes) == [exc |-> NoException, bytes |-> bytes]
NoChunk(type, msg) == [exc |-> Exception(type, msg), bytes |-> <<>>]

\* outfile.write(v.to_bytes(4, byteorder="little", signed=False))
U32Chunk(v) ==
    IF Fits32(v) THEN Chunk(to_bytes(v, 4))
    ELSE NoChunk("OverflowError", "int too big to convert")

\* outfile.write(self.<list>[i].to_bytes(4, ...)), i 1-based here
ListU32Chunk(list, i) ==
    IF i > Len(list) THEN NoChunk("IndexError", "list index out of range")
    ELSE U32Chunk(list[i])

\* lines 266-268: all the bytes of string i
StringChunk(stringdata, i) ==
    IF i > Len(stringdata) THEN NoChunk("IndexError", "list index out of range")
    ELSE Chunk(stringdata[i])

\* a variant: the padding computed without the test "if overage"
NeededPaddingAlways(currentposition) == 16 - (currentposition % 16)

\* lines 271-275: padding needed up to the next 16-byte boundary
NeededPadding(currentposition) ==
    LET overage == currentposition % 16
    IN  IF overage # 0 THEN 16 - overage ELSE 0

\* the writes run in order and stop at the first that raises
RECURSIVE WriteAll(_, _)
WriteAll(chunks, written) ==
    IF chunks = <<>> THEN [exc |-> NoException, bytes |-> written]
    ELSE IF Head(chunks).exc # NoException
         THEN [exc |-> Head(chunks).exc, bytes |-> written]
         ELSE WriteAll(Tail(chunks), written \o Head(chunks).bytes)

\* lines 250-268: header, property table and strings
HeaderAndData(o) ==
    <<Chunk(o.headermagicword), Chunk(to_bytes(0, 4)), U32Chunk(o.headersize),
      U32Chunk(o.unknown1), U32Chunk(o.unknown2), U32Chunk(o.stringcount),
      U32Chunk(o.unknown3), U32Chunk(o.unknown4)>>
    \o [k \in 1 .. 2 * o.stringcount |->
            IF k % 2 = 1 THEN ListU32Chunk(o.prop1list, (k + 1) \div 2)
            ELSE ListU32Chunk(o.prop2list, k \div 2)]
    \o [i \in 1 .. o.stringcount |-> StringChunk(o.stringdata, i)]

\* lines 281-284: the footer
Footer(o) ==
    <<Chunk(o.footermagicword), U32Chunk(o.unknown5), U32Chunk(o.footersize),
      U32Chunk(o.unknown6)>>

\* a variant: the placeholder is never overwritten
PatchDataSizeSkipped(bytes) == [exc |-> NoException, bytes |-> bytes]

\* a variant: the header alone is taken off the length, not header and footer
PatchDataSizeHeaderOnly(bytes) ==
    [exc |-> NoException,
     bytes |-> SubSeq(bytes, 1, 4) \o to_bytes(Len(bytes) - 32, 4)
               \o SubSeq(bytes, 9, Len(bytes))]

\* lines 287-289: seek(4) and overwrite the placeholder with tell() - 48
PatchDataSize(bytes) ==
    LET newdatasize == Len(bytes) - 48
    IN  IF ~Fits32(newdatasize) THEN [exc |-> Exception("OverflowError", "can't convert negative int to unsigned"),
                                      bytes |-> bytes]
        ELSE [exc |-> NoException,
              bytes |-> SubSeq(bytes, 1, 4) \o to_bytes(newdatasize, 4)
                        \o SubSeq(bytes, 9, Len(bytes))]

\* FMS.write_fms: [exc, written, bytes]; written is FALSE when the file was
\* never opened
write_fms_call(o) ==
    IF ~o.validflag
    THEN [exc |-> Exception("AssertionError", "This object has not been initialized with valid data."),
          written |-> FALSE, bytes |-> <<>>]
    ELSE
    LET w1 == WriteAll(HeaderAndData(o), <<>>) IN
    IF w1.exc # NoException THEN [exc |-> w1.exc, written |-> TRUE, bytes |-> w1.bytes]
    ELSE
    LET padded == w1.bytes \o [i \in 1 .. NeededPadding(Len(w1.bytes)) |-> 0]
        w2 == WriteAll(Footer(o), padded)
    IN
    IF w2.exc # NoException THEN [exc |-> w2.exc, written |-> TRUE, bytes |-> w2.bytes]
    ELSE
    LET w3 == PatchDataSize(w2.bytes)
    IN  [exc |-> w3.exc, written |-> TRUE, bytes |-> w3.bytes]

-----------------------------------------------------------------------------
(* Text: decimal numbers, UTF-8, and the XML parser's view of character data *)

\* an element that is missing, and one that is there with raw content
Absent == <<>>
Present(raw) == <<raw>>

RECURSIVE Digits(_)
Digits(n) == IF n < 10 THEN <<48 + n>> ELSE Digits(n \div 10) \o <<48 + (n % 10)>>

\* f"{n}" for an int
DecStr(n) == IF n < 0 THEN <<45>> \o Digits(-n) ELSE Digits(n)

IsDigits(s) == s # <<>> /\ \A k \in 1 .. Len(s) : s[k] >= 48 /\ s[k] <= 57

RECURSIVE DigitsValue(_)
DigitsValue(s) ==
    IF s = <<>> THEN 0 ELSE 10 * DigitsValue(SubSeq(s, 1, Len(s) - 1)) + (s[Len(s)] - 48)

\* int(text) for a str: an optional sign and decimal digits, else ValueError
IntOk(s) == IF s # <<>> /\ s[1] \in {43, 45} THEN IsDigits(Tail(s)) ELSE IsDigits(s)
IntValue(s) ==
    IF s[1] = 45 THEN 0 - DigitsValue(Tail(s))
    ELSE IF s[1] = 43 THEN DigitsValue(Tail(s)) ELSE DigitsValue(s)

\* bytes.decode("utf-8") and str.encode("utf-8"): the model's files hold no
\* multi-byte sequence, so a byte above 0x7F is a decoding error and the rest
\* map one to one
Utf8Ok(bytes) == \A k \in 1 .. Len(bytes) : bytes[k] < 128
Utf8Decode(bytes) == bytes
Utf8Encode(str) == str

\* XML 1.0 Char, within the model's range
XmlCharOk(c) == c >= 32 \/ c \in {9, 10, 13}

\* ElementTree's parse of raw character data: references are replaced, a line
\* end is normalised to "\n"; a bare "<", an unknown reference or a character
\* outside Char is a ParseError
RECURSIVE XmlCharDataOk(_)
XmlCharDataOk(raw) ==
    IF raw = <<>> THEN TRUE
    ELSE IF Head(raw) = ChAmp
         THEN \E e \in {EntAmp, EntLt, EntGt, EntQuot, EntApos, EntNewline} :
                 /\ StartsWith(raw, e)
                 /\ XmlCharDataOk(SubSeq(raw, Len(e) + 1, Len(raw)))
         ELSE Head(raw) # ChLt /\ XmlCharOk(Head(raw)) /\ XmlCharDataOk(Tail(raw))

RECURSIVE XmlCharData(_)
XmlCharData(raw) ==
    IF raw = <<>> THEN <<>>
    ELSE IF StartsWith(raw, EntAmp) THEN <<ChAmp>> \o XmlCharData(SubSeq(raw, 6, Len(raw)))
    ELSE IF StartsWith(raw, EntLt) THEN <<ChLt>> \o XmlCharData(SubSeq(raw, 5, Len(raw)))
    ELSE IF StartsWith(raw, EntGt) THEN <<ChGt>> \o XmlCharData(SubSeq(raw, 5, Len(raw)))
    ELSE IF StartsWith(raw, EntQuot) THEN <<ChQuot>> \o XmlCharData(SubSeq(raw, 7, Len(raw)))
    ELSE IF StartsWith(raw, EntApos) THEN <<ChApos>> \o XmlCharData(SubSeq(raw, 7, Len(raw)))
    ELSE IF StartsWith(raw, EntNewline) THEN <<ChNewline>> \o XmlCharData(SubSeq(raw, 6, Len(raw)))
    ELSE IF StartsWith(raw, <<13, 10>>) THEN <<ChNewline>> \o XmlCharData(SubSeq(raw, 3, Len(raw)))
    ELSE IF Head(raw) = 13 THEN <<ChNewline>> \o XmlCharData(Tail(raw))
    ELSE <<Head(raw)>> \o XmlCharData(Tail(raw))

\* someelement.text: None (Absent here) for an element with no content
ElementText(raw) == IF raw = <<>> THEN Absent ELSE Present(XmlCharData(raw))

-----------------------------------------------------------------------------
(* write_xml *)

\* the file before write_xml has run, and a file cut short by an exception
NoXml == [wellformed |-> FALSE, written |-> FALSE, metadata |-> Absent, stringlist |-> Absent]
BrokenXml == [wellformed |-> FALSE, written |-> TRUE, metadata |-> Absent, stringlist |-> Absent]

\* lines 311-322: the metadata block
XmlMetadata(o) ==
    [headermagicword |-> Present(Utf8Decode(o.headermagicword)),
     datasize |-> Present(DecStr(o.datasize)),
     headersize |-> Present(DecStr(o.headersize)),
     unknown1 |-> Present(DecStr(o.unknown1)),
     unknown2 |-> Present(DecStr(o.unknown2)),
     stringcount |-> Present(DecStr(o.stringcount)),
     unknown3 |-> Present(DecStr(o.unknown3)),
     unknown4 |-> Present(DecStr(o.unknown4)),
     footermagicword |-> Present(Utf8Decode(o.footermagicword)),
     unknown5 |-> Present(DecStr(o.unknown5)),
     footersize |-> Present(DecStr(o.footersize)),
     unknown6 |-> Present(DecStr(o.unknown6))]

\* lines 334-338: the string without its terminator, decoded and escaped
XmlText(bytelist) ==
    IF bytelist[Len(bytelist)] = 0
    THEN escape_for_xml(Utf8Decode(SubSeq(bytelist, 1, Len(bytelist) - 1)))
    ELSE escape_for_xml(Utf8Decode(bytelist))

\* a variant: the run length is written for every run, of length 1 too
WritesRepeatCountAlways(zerocount) == zerocount > 0

\* line 340: when the run length is written
WritesRepeatCount(zerocount) == zerocount > 1

\* lines 329-342: the record of string i (0-based)
XmlRecord(o, i) ==
    [index |-> Present(DecStr(i)),
     props1 |-> Present(DecStr(o.prop1list[i + 1])),
     props2 |-> Present(DecStr(o.prop2list[i + 1])),
     text |-> Present(XmlText(o.stringdata[i + 1])),
     nullrepeatcount |-> IF WritesRepeatCount(o.zerocounts[i + 1])
                         THEN Present(DecStr(o.zerocounts[i + 1])) ELSE Absent]

\* lines 327-328: the indices that get a record, in order
RECURSIVE KeptIndices(_, _, _)
KeptIndices(skips, i, stringcount) ==
    IF i >= stringcount THEN <<>>
    ELSE IF ~skips[i + 1] THEN <<i>> \o KeptIndices(skips, i + 1, stringcount)
         ELSE KeptIndices(skips, i + 1, stringcount)

\* what stops write_xml part-way: a list shorter than stringcount, or bytes
\* that are not UTF-8
XmlRecordError(o, i) ==
    IF i + 1 > Len(o.prop1list) \/ i + 1 > Len(o.prop2list)
    THEN Exception("IndexError", "list index out of range")
    ELSE IF ~Utf8Ok(o.stringdata[i + 1])
    THEN Exception("UnicodeDecodeError", "invalid start byte")
    ELSE NoException

\* FMS.write_xml: [obj, exc, file]
write_xml_call(o) ==
    IF ~o.validflag
    THEN [obj |-> o, exc |-> Exception("AssertionError", "This object has not been initialized with valid data."),
          file |-> NoXml]
    ELSE
    LET c == check_empty_strings_call(o) IN
    IF c.exc # NoException THEN [obj |-> c.obj, exc |-> c.exc, file |-> NoXml]
    ELSE
    IF ~Utf8Ok(o.headermagicword) \/ ~Utf8Ok(o.footermagicword)
    THEN [obj |-> c.obj, exc |-> Exception("UnicodeDecodeError", "invalid start byte"),
          file |-> BrokenXml]
    ELSE
    LET kept == KeptIndices(c.obj.skips, 0, c.obj.stringcount)
        bad == {k \in 1 .. Len(kept) : XmlRecordError(c.obj, kept[k]) # NoException}
    IN
    IF bad # {}
    THEN [obj |-> c.obj,
          exc |-> XmlRecordError(c.obj, kept[CHOOSE k \in bad : \A j \in bad : k <= j]),
          file |-> BrokenXml]
    ELSE [obj |-> c.obj, exc |-> NoException,
          file |-> [wellformed |-> TRUE, written |-> TRUE,
                    metadata |-> Present(XmlMetadata(c.obj)),
                    stringlist |-> Present([k \in 1 .. Len(kept) |-> XmlRecord(c.obj, kept[k])])]]

-----------------------------------------------------------------------------
(* read_xml *)

MetaFields ==
    {"headermagicword", "datasize", "headersize", "unknown1", "unknown2",
     "stringcount", "unknown3", "unknown4", "footermagicword", "unknown5",
     "footersize", "unknown6"}
RecordFields == {"index", "props1", "props2", "text", "nullrepeatcount"}

OptionOk(opt) == opt = Absent \/ XmlCharDataOk(opt[1])

\* line 351: ET.parse accepts the file
XmlParses(xml) ==
    /\ xml.wellformed
    /\ xml.metadata # Absent => \A f \in MetaFields : OptionOk(xml.metadata[1][f])
    /\ xml.stringlist # Absent =>
           \A k \in 1 .. Len(xml.stringlist[1]) :
               \A f \in RecordFields : OptionOk(xml.stringlist[1][k][f])

\* int(someelement.text) for an element that may be missing
IntElement(opt) ==
    IF opt = Absent THEN [exc |-> NoException, found |-> FALSE, val |-> 0]
    ELSE IF ElementText(opt[1]) = Absent
    THEN [exc |-> Exception("TypeError", "int() argument must be a string, not 'NoneType'"),
          found |-> TRUE, val |-> 0]
    ELSE IF ~IntOk(XmlCharData(opt[1]))
    THEN [exc |-> Exception("ValueError", "invalid literal for int() with base 10"),
          found |-> TRUE, val |-> 0]
    ELSE [exc |-> NoException, found |-> TRUE, val |-> IntValue(XmlCharData(opt[1]))]

\* someelement.text.encode("utf-8") for an element that may be missing
BytesElement(opt) ==
    IF opt = Absent THEN [exc |-> NoException, found |-> FALSE, val |-> <<>>]
    ELSE IF ElementText(opt[1]) = Absent
    THEN [exc |-> Exception("AttributeError", "'NoneType' object has no attribute 'encode'"),
          found |-> TRUE, val |-> <<>>]
    ELSE [exc |-> NoException, found |-> TRUE, val |-> Utf8Encode(XmlCharData(opt[1]))]

\* a variant: the assertion lets zero through
StringCountOkZero(stringcount) == stringcount >= 0

\* line 402: the assertion on a declared <stringcount>
StringCountOk(stringcount) == stringcount > 0

\* lines 481-500: the bytes of one record's string
RecordBytes(opt) ==
    IF opt = Absent THEN <<0>>
    ELSE IF ElementText(opt[1]) = Absent THEN <<0>>
    ELSE Utf8Encode(unescape_from_xml(XmlCharData(opt[1]))) \o <<0>>

\* lines 507-509: entries synthesized after a record with that <nullrepeatcount>
RepeatExtra(repeatcount) == IF repeatcount > 1 THEN repeatcount - 1 ELSE 0

\* One <stringdata> record, lines 461-515, on the loop's state
\* st = [prop1list, prop2list, stringdata, stringsread].
\* lines 504-515: <nullrepeatcount>
ReadRecordRepeat(st, r) ==
    LET rc == IntElement(r.nullrepeatcount)
        extra == IF rc.found THEN RepeatExtra(rc.val) ELSE 0
    IN  IF rc.exc # NoException THEN [exc |-> rc.exc, st |-> st]
        ELSE [exc |-> NoException,
              st |-> [st EXCEPT !.prop1list = @ \o [j \in 1 .. extra |-> 0],
                                !.prop2list = @ \o [j \in 1 .. extra |-> 0],
                                !.stringdata = @ \o [j \in 1 .. extra |-> <<0>>],
                                !.stringsread = @ + extra]]

\* lines 480-502: <text>
ReadRecordText(st, r) ==
    ReadRecordRepeat([st EXCEPT !.stringdata = Append(@, RecordBytes(r.text)),
                                !.stringsread = @ + 1], r)

\* lines 473-478: <props2>
ReadRecordProps2(st, r) ==
    LET p2 == IntElement(r.props2)
    IN  IF p2.exc # NoException THEN [exc |-> p2.exc, st |-> st]
        ELSE ReadRecordText([st EXCEPT !.prop2list = Append(@, p2.val)], r)

\* lines 466-471: <props1>
ReadRecord(st, r) ==
    LET p1 == IntElement(r.props1)
    IN  IF p1.exc # NoException THEN [exc |-> p1.exc, st |-> st]
        ELSE ReadRecordProps2([st EXCEPT !.prop1list = Append(@, p1.val)], r)

\* lines 458-515: the records from the k-th on
RECURSIVE ReadRecords(_, _, _)
ReadRecords(recs, k, st) ==
    IF k > Len(recs) THEN [exc |-> NoException, st |-> st]
    ELSE LET one == ReadRecord(st, recs[k])
         IN  IF one.exc # NoException THEN one ELSE ReadRecords(recs, k + 1, one.st)

\* a variant: a declared count is kept as it is
FinalStringCountTrusting(mustcountstrings, stringcount, stringsread) ==
    IF mustcountstrings THEN stringsread ELSE stringcount

\* lines 518-523: the count the object ends with
FinalStringCount(mustcountstrings, stringcount, stringsread) ==
    IF mustcountstrings THEN stringsread
    ELSE IF stringcount # stringsread THEN stringsread ELSE stringcount

\* lines 517-526: the end of read_xml, given the loop's result
FinishReadXml(o, loop, mustcountstrings) ==
    IF loop.exc # NoException
    THEN Outcome([o EXCEPT !.prop1list = loop.st.prop1list,
                           !.prop2list = loop.st.prop2list,
                           !.stringdata = loop.st.stringdata], loop.exc, NoFrame)
    ELSE Outcome([o EXCEPT !.prop1list = loop.st.prop1list,
                           !.prop2list = loop.st.prop2list,
                           !.stringdata = loop.st.stringdata,
                           !.stringcount = FinalStringCount(mustcountstrings, @,
                                                            loop.st.stringsread),
                           !.validflag = TRUE],
                 NoException, NoFrame)

\* lines 454-526 of read_xml: the string list
ReadStringList(o, xml, mustcountstrings) ==
    IF xml.stringlist = Absent
    THEN Outcome(o, Exception("Exception", "XML parse fail. No <stringlist>."), NoFrame)
    ELSE FinishReadXml(o,
                       ReadRecords(xml.stringlist[1], 1,
                                   [prop1list |-> o.prop1list, prop2list |-> o.prop2list,
                                    stringdata |-> o.stringdata, stringsread |-> 0]),
                       mustcountstrings)

\* lines 366-451: the metadata fields in the order read_xml looks for them
\* (line 374: <datasize> is skipped)
MetaOrder ==
    <<"headermagicword", "headersize", "unknown1", "unknown2", "stringcount",
      "unknown3", "unknown4", "footermagicword", "unknown5", "footersize", "unknown6">>

\* the value a field gets when its element is missing; stringcount gets none
MetaDefault(f) ==
    CASE f = "headermagicword" -> MagicFMSB
      [] f = "footermagicword" -> MagicFEOC
      [] f = "headersize" -> 32
      [] f = "footersize" -> 16
      [] f = "unknown3" -> 3
      [] OTHER -> 0

\* the element's value: bytes for the magic words, an int for the rest
MetaElement(f, opt) ==
    IF f \in {"headermagicword", "footermagicword"} THEN BytesElement(opt)
    ELSE IntElement(opt)

\* lines 369, 379, 402, 426, 441: the assertion on a field that was found
MetaAssert(f, o) ==
    CASE f = "headermagicword" /\ o.headermagicword # MagicFMSB ->
            Exception("AssertionError", "Bad header magic word. Must be FMSB")
      [] f = "headersize" /\ o.headersize # 32 ->
            Exception("AssertionError", "Header size is not 32. The only header I know how to write is 32 bytes.")
      [] f = "stringcount" /\ ~StringCountOk(o.stringcount) ->
            Exception("AssertionError", "<stringcount> is zero. Can't produce a valid file with no strings...")
      [] f = "footermagicword" /\ o.footermagicword # MagicFEOC ->
            Exception("AssertionError", "Bad footer magic word. Must be FEOC")
      [] f = "footersize" /\ o.footersize # 16 ->
            Exception("AssertionError", "Footer size is not 16. The only footer I know how to write is 16 bytes.")
      [] OTHER -> NoException

\* the object after field f, given what its element holds
MetaAssign(o, f, el) ==
    IF el.found THEN [o EXCEPT ![f] = el.val]
    ELSE IF f = "stringcount" THEN o
    ELSE [o EXCEPT ![f] = MetaDefault(f)]

\* lines 366-451: the fields from the k-th on
RECURSIVE ReadMetadata(_, _, _)
ReadMetadata(o, m, k) ==
    IF k > Len(MetaOrder) THEN [obj |-> o, exc |-> NoException]
    ELSE LET f == MetaOrder[k]
             el == MetaElement(f, m[f])
             o1 == MetaAssign(o, f, el)
             e == IF el.found THEN MetaAssert(f, o1) ELSE NoException
         IN  IF el.exc # NoException THEN [obj |-> o, exc |-> el.exc]
             ELSE IF e # NoException THEN [obj |-> o1, exc |-> e]
             ELSE ReadMetadata(o1, m, k + 1)

\* lines 398-407: strings are counted when <stringcount> is missing
AfterMetadata(r, xml) ==
    IF r.exc # NoException THEN Outcome(r.obj, r.exc, NoFrame)
    ELSE ReadStringList(r.obj, xml, xml.metadata[1].stringcount = Absent)

\* FMS.read_xml, applied to object o and the file xml
read_xml_call(o, xml) ==
    IF ~XmlParses(xml)
    THEN Outcome(o, Exception("ParseError", "not well-formed"), NoFrame)
    ELSE IF xml.metadata = Absent
    THEN Outcome(o, Exception("Exception", "XML parse fail. No <metadata>."), NoFrame)
    ELSE AfterMetadata(ReadMetadata(o, xml.metadata[1], 1), xml)

-----------------------------------------------------------------------------
(* The inputs *)

\* string contents of the generated .fms files: "", "a", the literal text
\* "&lt;", and the six characters the escaping is about
Texts == {<<>>, <<97>>, EntLt, <<ChAmp, ChLt, ChGt, ChQuot, ChApos, ChNewline>>}

\* prop1/prop2 pairs of the generated .fms files
PropPairs == {<<0, 0>>, <<1, 258>>}

RECURSIVE Flatten(_)
Flatten(ss) == IF ss = <<>> THEN <<>> ELSE Head(ss) \o Flatten(Tail(ss))

\* the well-formed .fms file with these strings (without terminators) and
\* property pairs, laid out as section 3 of the format description says
SampleFile(texts, props) ==
    LET n == Len(texts)
        table == Flatten([i \in 1 .. n |-> to_bytes(props[i][1], 4) \o to_bytes(props[i][2], 4)])
        strings == Flatten([i \in 1 .. n |-> texts[i] \o <<0>>])
        used == Len(table) + Len(strings)
        padding == [i \in 1 .. ((16 - (used % 16)) % 16) |-> 0]
        data == table \o strings \o padding
    IN  MagicFMSB \o to_bytes(Len(data), 4) \o to_bytes(32, 4) \o to_bytes(0, 4)
        \o to_bytes(0, 4) \o to_bytes(n, 4) \o to_bytes(3, 4) \o to_bytes(0, 4)
        \o data
        \o MagicFEOC \o to_bytes(0, 4) \o to_bytes(16, 4) \o to_bytes(0, 4)

SampleFiles ==
    UNION {{SampleFile(t, p) : t \in [1 .. n -> Texts], p \in [1 .. n -> PropPairs]} :
           n \in 0 .. MaxStrings}

\* those of them whose property pairs are all zero
PlainFiles ==
    UNION {{SampleFile(t, [i \in 1 .. n |-> <<0, 0>>]) : t \in [1 .. n -> Texts]} :
           n \in 0 .. MaxStrings}

\* the file offsets a damaged byte may have: all but the three high bytes of
\* string_count, which would ask for a property table of 256 entries or more
DamageOffsets(F) == (0 .. Len(F) - 1) \ {21, 22, 23}

\* F with the byte at offset p replaced by b
WithByte(F, p, b) == [F EXCEPT ![p + 1] = b]

\* F with 16 more zero bytes at the end of its data section, data_size adjusted
WithExtraPadding(F) ==
    LET body == SubSeq(F, 1, Len(F) - 16) \o [i \in 1 .. 16 |-> 0]
                \o SubSeq(F, Len(F) - 15, Len(F))
    IN  SubSeq(body, 1, 4) \o to_bytes(Len(body) - 48, 4) \o SubSeq(body, 9, Len(body))

\* the damaged variants of a well-formed file: one byte cleared or raised by
\* one, the last byte missing, one byte too many, 16 zero bytes too many
Damaged(F) ==
    {WithByte(F, p, 0) : p \in DamageOffsets(F)}
    \cup {WithByte(F, p, (F[p + 1] + 1) % 256) : p \in DamageOffsets(F)}
    \cup {SubSeq(F, 1, Len(F) - 1), Append(F, 0), WithExtraPadding(F)}

\* the characters "a", "5", "x"
StrA == <<97>>
Str5 == <<53>>
StrX == <<120>>

\* <stringdata> records of the hand-written .xml inputs: with or without
\* <props1>, <props2> and <text>, and with <nullrepeatcount> missing, 1 or 3
SampleRecords ==
    {[index |-> Absent, props1 |-> c[1], props2 |-> c[1], text |-> c[2], nullrepeatcount |-> rc] :
        c \in {<<Absent, Absent>>, <<Present(Str5), Present(StrA)>>},
        rc \in {Absent, Present(DecStr(1)), Present(DecStr(3))}}

\* <stringcount> of the hand-written .xml inputs
SampleCounts ==
    {Absent, Present(StrX), Present(DecStr(-1))} \cup {Present(DecStr(k)) : k \in 0 .. 3}

\* a metadata block with nothing but <stringcount>, and one with every field
SparseMetadata(count) ==
    [f \in MetaFields |-> IF f = "stringcount" THEN count ELSE Absent]
FullMetadata(count) ==
    [f \in MetaFields |->
        CASE f = "stringcount" -> count
          [] f = "headermagicword" -> Present(MagicFMSB)
          [] f = "footermagicword" -> Present(MagicFEOC)
          [] f = "headersize" -> Present(DecStr(32))
          [] f = "footersize" -> Present(DecStr(16))
          [] f = "unknown3" -> Present(DecStr(3))
          [] f = "datasize" -> Present(DecStr(7))
          [] OTHER -> Present(DecStr(0))]

InputXmls ==
    {[wellformed |-> TRUE, written |-> TRUE, metadata |-> Present(m), stringlist |-> Present(l)] :
        m \in {SparseMetadata(c) : c \in SampleCounts} \cup {FullMetadata(c) : c \in SampleCounts},
        l \in UNION {[1 .. n -> SampleRecords] : n \in 0 .. MaxRecords}}

\* arguments of the escaping helpers: "&", "<", "l", "t", ";" and newline
EscAlphabet == {ChAmp, ChLt, 108, 116, 59, ChNewline}
EscStrings == UNION {[1 .. n -> EscAlphabet] : n \in 0 .. MaxEscLen}

-----------------------------------------------------------------------------
(* The drivers *)

Objects == [someFMS |-> NewFMS, anotherFMS |-> NewFMS]
NoEsc == <<>>

\* fms_to_xml_roundtrip_test(infilename, ...) and the binary round trip start
\* from a .fms file, well-formed or damaged (the property table is among the
\* damaged bytes, so the damage is to the files with an all-zero table);
\* xml_to_fms(infilename, ...) starts from an .xml file; the escaping helpers
\* from a str
Init ==
    /\ heap = Objects
    /\ exc = NoException
    /\ frame = NoFrame
    /\ escaped = NoEsc
    /\ unescaped = NoEsc
    /\ calls = <<>>
    /\ \/ /\ pc = "start_fms"
          /\ \/ \E B \in SampleFiles :
                   disk = [infile |-> B, xmlfile |-> NoXml, outfile |-> <<>>]
             \/ \E F \in PlainFiles : \E B \in Damaged(F) :
                   disk = [infile |-> B, xmlfile |-> NoXml, outfile |-> <<>>]
          /\ instring = NoEsc
       \/ /\ pc = "start_xml"
          /\ \E X \in InputXmls : disk = [infile |-> <<>>, xmlfile |-> X, outfile |-> <<>>]
          /\ instring = NoEsc
       \/ /\ pc = "start_escape"
          /\ disk = [infile |-> <<>>, xmlfile |-> NoXml, outfile |-> <<>>]
          /\ instring \in EscStrings

\* self.read_fms(infilename) at driver position from; an exception ends the driver
read_fms(self, infilename, from, to) ==
    /\ pc = from /\ exc = NoException
    /\ LET r == read_fms_call(heap[self], disk[infilename])
       IN  /\ heap' = [heap EXCEPT ![self] = r.obj]
           /\ exc' = r.exc
           /\ frame' = r.frame
           /\ pc' = IF r.exc = NoException THEN to ELSE from
    /\ UNCHANGED <<disk, instring, escaped, unescaped, calls>>

\* self.write_fms(outfilename)
write_fms(self, outfilename, from, to) ==
    /\ pc = from /\ exc = NoException
    /\ LET r == write_fms_call(heap[self])
       IN  /\ disk' = IF r.written THEN [disk EXCEPT ![outfilename] = r.bytes] ELSE disk
           /\ exc' = r.exc
           /\ pc' = IF r.exc = NoException THEN to ELSE from
    /\ UNCHANGED <<heap, frame, instring, escaped, unescaped, calls>>

\* self.write_xml(outfilename)
write_xml(self, outfilename, from, to) ==
    /\ pc = from /\ exc = NoException
    /\ LET r == write_xml_call(heap[self])
       IN  /\ heap' = [heap EXCEPT ![self] = r.obj]
           /\ disk' = IF r.file.written THEN [disk EXCEPT ![outfilename] = r.file] ELSE disk
           /\ exc' = r.exc
           /\ pc' = IF r.exc = NoException THEN to ELSE from
    /\ UNCHANGED <<frame, instring, escaped, unescaped, calls>>

\* self.read_xml(infilename)
read_xml(self, infilename, from, to) ==
    /\ pc = from /\ exc = NoException
    /\ LET r == read_xml_call(heap[self], disk[infilename])
       IN  /\ heap' = [heap EXCEPT ![self] = r.obj]
           /\ exc' = r.exc
           /\ pc' = IF r.exc = NoException THEN to ELSE from
    /\ UNCHANGED <<disk, frame, instring, escaped, unescaped, calls>>

\* fms_to_xml_roundtrip_test, lines 547-552
RoundtripReadFms == read_fms("someFMS", "infile", "start_fms", "decoded")
RoundtripWriteXml == write_xml("someFMS", "xmlfile", "decoded", "xml_written")
RoundtripReadXml == read_xml("anotherFMS", "xmlfile", "xml_written", "xml_read")
RoundtripWriteFms == write_fms("anotherFMS", "outfile", "xml_read", "roundtrip_done")

\* the binary round trip: write_fms on the decoded object, read_fms on a fresh one
BinaryWriteFms == write_fms("someFMS", "outfile", "decoded", "fms_written")
BinaryReadFms == read_fms("anotherFMS", "outfile", "fms_written", "binary_done")

\* xml_to_fms, lines 540-542
XmlToFmsRead == read_xml("someFMS", "xmlfile", "start_xml", "parsed")
XmlToFmsWrite == write_fms("someFMS", "outfile", "parsed", "xml_to_fms_done")

\* the escaping helpers applied one after the other
Escape ==
    /\ pc = "start_escape"
    /\ escaped' = escape_for_xml(instring)
    /\ pc' = "escaped"
    /\ UNCHANGED <<heap, disk, exc, frame, instring, unescaped, calls>>

Unescape ==
    /\ pc = "escaped"
    /\ unescaped' = unescape_from_xml(escaped)
    /\ pc' = "unescaped"
    /\ UNCHANGED <<heap, disk, exc, frame, instring, escaped, calls>>

Next ==
    \/ RoundtripReadFms
    \/ RoundtripWriteXml
    \/ RoundtripReadXml
    \/ RoundtripWriteFms
    \/ BinaryWriteFms
    \/ BinaryReadFms
    \/ XmlToFmsRead
    \/ XmlToFmsWrite
    \/ Escape
    \/ Unescape

Spec == Init /\ [][Next]_vars

-----------------------------------------------------------------------------
(* One object, any sequence of method calls *)

\* most calls made on the one object
MaxCalls == 5

\* the .fms files of the caller: no strings; two empty strings with props;
\* "a" and two empty strings; the last with a non-zero padding byte, which
\* read_fms finds after it has filled the lists; and the first with
\* reserved3 = 2
CallFiles ==
    LET two == SampleFile(<< <<>>, <<>> >>, << <<1, 258>>, <<1, 258>> >>)
        three == SampleFile(<< StrA, <<>>, <<>> >>, << <<0, 0>>, <<1, 258>>, <<0, 0>> >>)
    IN  {SampleFile(<<>>, <<>>), two, three,
         WithByte(three, Len(three) - 17, 1),
         WithByte(SampleFile(<<>>, <<>>), 24, 2)}

\* the .xml files of the caller: one record "a" with run length 3 and no
\* <stringcount>; <stringcount>0</stringcount>; and a second record whose
\* <props2> is not a number, which read_xml finds after it has appended to
\* the lists
CallXmls ==
    LET rec(p2, rc) == [index |-> Absent, props1 |-> Present(Str5), props2 |-> Present(p2),
                        text |-> Present(StrA), nullrepeatcount |-> rc]
        file(count, l) == [wellformed |-> TRUE, written |-> TRUE,
                           metadata |-> Present(SparseMetadata(count)),
                           stringlist |-> Present(l)]
    IN  {file(Absent, << rec(Str5, Present(DecStr(3))) >>),
         file(Present(DecStr(0)), << rec(Str5, Absent) >>),
         file(Present(DecStr(2)), << rec(Str5, Absent), rec(StrX, Absent) >>)}

\* what a call wrote: nothing, a .fms file or an .xml file
Wrote(written, fms, xml) == [written |-> written, fms |-> fms, xml |-> xml]
WroteNothing == Wrote(FALSE, <<>>, NoXml)

\* one call in the caller's record: the method, the exception it raised, the
\* object as the call left it, and what it wrote
Call(op, e, obj, out) == [op |-> op, exc |-> e, obj |-> obj, out |-> out]

InitCalls ==
    /\ heap = Objects
    /\ exc = NoException
    /\ frame = NoFrame
    /\ instring = NoEsc
    /\ escaped = NoEsc
    /\ unescaped = NoEsc
    /\ calls = <<>>
    /\ pc = "calls"
    /\ \E B \in CallFiles : \E X \in CallXmls :
          disk = [infile |-> B, xmlfile |-> X, outfile |-> <<>>]

\* someFMS.read_fms("infile")
CallReadFms ==
    /\ pc = "calls" /\ Len(calls) < MaxCalls
    /\ LET r == read_fms_call(heap.someFMS, disk.infile)
       IN  /\ heap' = [heap EXCEPT !.someFMS = r.obj]
           /\ exc' = r.exc
           /\ frame' = r.frame
           /\ calls' = Append(calls, Call("read_fms", r.exc, r.obj, WroteNothing))
    /\ UNCHANGED <<disk, pc, instring, escaped, unescaped>>

\* someFMS.read_xml("xmlfile")
CallReadXml ==
    /\ pc = "calls" /\ Len(calls) < MaxCalls
    /\ LET r == read_xml_call(heap.someFMS, disk.xmlfile)
       IN  /\ heap' = [heap EXCEPT !.someFMS = r.obj]
           /\ exc' = r.exc
           /\ calls' = Append(calls, Call("read_xml", r.exc, r.obj, WroteNothing))
    /\ UNCHANGED <<disk, pc, frame, instring, escaped, unescaped>>

\* someFMS.check_empty_strings()
CallCheckEmptyStrings ==
    /\ pc = "calls" /\ Len(calls) < MaxCalls
    /\ LET r == check_empty_strings_call(heap.someFMS)
       IN  /\ heap' = [heap EXCEPT !.someFMS = r.obj]
           /\ exc' = r.exc
           /\ calls' = Append(calls, Call("check_empty_strings", r.exc, r.obj, WroteNothing))
    /\ UNCHANGED <<disk, pc, frame, instring, escaped, unescaped>>

\* someFMS.write_fms("outfile")
CallWriteFms ==
    /\ pc = "calls" /\ Len(calls) < MaxCalls
    /\ LET r == write_fms_call(heap.someFMS)
       IN  /\ disk' = IF r.written THEN [disk EXCEPT !.outfile = r.bytes] ELSE disk
           /\ exc' = r.exc
           /\ calls' = Append(calls, Call("write_fms", r.exc, heap.someFMS,
                                          Wrote(r.written, r.bytes, NoXml)))
    /\ UNCHANGED <<heap, pc, frame, instring, escaped, unescaped>>

\* someFMS.write_xml("xmlfile")
CallWriteXml ==
    /\ pc = "calls" /\ Len(calls) < MaxCalls
    /\ LET r == write_xml_call(heap.someFMS)
       IN  /\ heap' = [heap EXCEPT !.someFMS = r.obj]
           /\ disk' = IF r.file.written THEN [disk EXCEPT !.xmlfile = r.file] ELSE disk
           /\ exc' = r.exc
           /\ calls' = Append(calls, Call("write_xml", r.exc, r.obj,
                                          Wrote(r.file.written, <<>>, r.file)))
    /\ UNCHANGED <<pc, frame, instring, escaped, unescaped>>

NextCalls ==
    \/ CallReadFms
    \/ CallReadXml
    \/ CallCheckEmptyStrings
    \/ CallWriteFms
    \/ CallWriteXml

SpecCalls == InitCalls /\ [][NextCalls]_vars

-----------------------------------------------------------------------------
(* The properties *)

someFMS == heap.someFMS
anotherFMS == heap.anotherFMS

\* the driver started from a .fms file
FmsDriver ==
    pc \in {"start_fms", "decoded", "xml_written", "xml_read", "roundtrip_done",
            "fms_written", "binary_done"}

\* someFMS.read_fms(infile) has run, to its end or to an exception
ReadFmsReturned == FmsDriver /\ ~(pc = "start_fms" /\ exc = NoException)

\* someFMS.read_fms(infile) has raised
ReadFmsRaised == pc = "start_fms" /\ exc # NoException

RECURSIVE SumLen(_)
SumLen(ss) == IF ss = <<>> THEN 0 ELSE Len(Head(ss)) + SumLen(Tail(ss))

\* the fields of the Document, one by one
SameDocument(d, e) ==
    /\ d.headermagicword = e.headermagicword
    /\ d.datasize = e.datasize
    /\ d.headersize = e.headersize
    /\ d.unknown1 = e.unknown1 /\ d.unknown2 = e.unknown2
    /\ d.unknown3 = e.unknown3 /\ d.unknown4 = e.unknown4
    /\ d.stringcount = e.stringcount
    /\ d.prop1list = e.prop1list /\ d.prop2list = e.prop2list
    /\ d.stringdata = e.stringdata
    /\ d.footermagicword = e.footermagicword
    /\ d.unknown5 = e.unknown5
    /\ d.footersize = e.footersize
    /\ d.unknown6 = e.unknown6

\* C1: whenever read_fms accepts the input file, fms_to_xml_roundtrip_test
\* runs to its end (write_xml, read_xml on a fresh object and write_fms all
\* return) and the file it writes is byte for byte the input file.
C1_CrossFormatRoundTrip ==
    /\ (pc \in {"decoded", "xml_written", "xml_read"} => exc = NoException)
    /\ (pc = "roundtrip_done" => disk.outfile = disk.infile)

\* C2: for a Document that read_fms produced on a fresh object, write_fms
\* returns, read_fms of the written file on a fresh object returns, and the
\* second Document equals the first field for field.
C2_BinaryRoundTrip ==
    /\ (pc \in {"decoded", "fms_written"} => exc = NoException)
    /\ (pc = "binary_done" =>
            /\ anotherFMS.validflag
            /\ SameDocument(someFMS, anotherFMS))

\* C2 witness: the binary round trip ended on a Document of three strings,
\* one of them non-empty, with a non-zero property pair.
C2_Witness ==
    /\ pc = "binary_done"
    /\ anotherFMS.stringcount = 3
    /\ anotherFMS.prop2list[2] = 258
    /\ Len(anotherFMS.stringdata[3]) > 1

\* C4: unescape_from_xml(escape_for_xml(s)) = s.
C4_EscapeRoundTrip == pc = "unescaped" => unescaped = instring

\* the entry is an empty string: the terminator alone
IsEmptyEntry(bytelist) == bytelist = <<0>>

\* entries i .. i+k-1 (1-based) are a maximal run of empty strings
MaximalRun(sd, i, k) ==
    /\ k >= 1 /\ i >= 1 /\ i + k - 1 <= Len(sd)
    /\ \A j \in i .. i + k - 1 : IsEmptyEntry(sd[j])
    /\ (i > 1 => ~IsEmptyEntry(sd[i - 1]))
    /\ (i + k - 1 < Len(sd) => ~IsEmptyEntry(sd[i + k]))

\* C3: for a valid Document with a maximal run of k >= 1 empty entries at
\* index i, write_xml then read_xml on a fresh object gives a string list of
\* the same length in which the run is k empty entries, the first with the
\* original prop1/prop2 and the others with 0/0, and every non-empty entry
\* keeps its index, props and bytes.
C3_RunLaw ==
    pc = "xml_read" =>
        LET d == someFMS
            r == anotherFMS
        IN  (\E i \in 1 .. Len(d.stringdata), k \in 1 .. Len(d.stringdata) :
                MaximalRun(d.stringdata, i, k))
            => /\ Len(r.stringdata) = Len(d.stringdata)
               /\ Len(r.prop1list) = Len(d.stringdata)
               /\ Len(r.prop2list) = Len(d.stringdata)
               /\ \A i \in 1 .. Len(d.stringdata), k \in 1 .. Len(d.stringdata) :
                     MaximalRun(d.stringdata, i, k) =>
                        /\ \A j \in i .. i + k - 1 : IsEmptyEntry(r.stringdata[j])
                        /\ r.prop1list[i] = d.prop1list[i]
                        /\ r.prop2list[i] = d.prop2list[i]
                        /\ \A j \in i + 1 .. i + k - 1 :
                              r.prop1list[j] = 0 /\ r.prop2list[j] = 0
               /\ \A j \in 1 .. Len(d.stringdata) :
                     ~IsEmptyEntry(d.stringdata[j]) =>
                        /\ r.stringdata[j] = d.stringdata[j]
                        /\ r.prop1list[j] = d.prop1list[j]
                        /\ r.prop2list[j] = d.prop2list[j]

\* the unsigned 32-bit little-endian field at offset off of file B
U32(B, off) == from_bytes(FileRead(B, off, 4))

\* the offset just after n NUL-terminated strings that start at offset pos,
\* or -1 when the file ends first
RECURSIVE StringsEnd(_, _, _)
StringsEnd(B, pos, n) ==
    IF n = 0 THEN pos
    ELSE IF pos >= Len(B) THEN -1
    ELSE IF B[pos + 1] = 0 THEN StringsEnd(B, pos + 1, n - 1)
    ELSE StringsEnd(B, pos + 1, n)

\* the fatal checks of read_fms, read off the file: the magic words, the two
\* sizes, data_size against the file length and against the bytes of the
\* table, of string_count strings found within data_size, and of the zero
\* padding, and the footer ending the file
FatalChecksPass(B) ==
    /\ FileRead(B, 0, 4) = MagicFMSB
    /\ Len(B) - 48 = U32(B, 4)
    /\ U32(B, 8) = 32
    /\ LET sc == U32(B, 20)
           e == StringsEnd(B, 32 + 8 * sc, sc)
           pad == (16 - (e % 16)) % 16
       IN  /\ (sc > 0 => 8 * sc < U32(B, 4))
           /\ e >= 0
           /\ e - 32 <= U32(B, 4)
           /\ \A q \in e .. e + pad - 1 : q < Len(B) => B[q + 1] = 0
           /\ e - 32 + pad = U32(B, 4)
           /\ FileRead(B, e + pad, 4) = MagicFEOC
           /\ U32(B, e + pad + 8) = 16
           /\ e + pad + 16 = Len(B)

\* B with its six reserved fields set to the values read_fms expects
WithExpectedReserved(B) ==
    [q \in 1 .. Len(B) |->
        IF q - 1 \in (12 .. 19) \cup (28 .. 31)
                     \cup (Len(B) - 12 .. Len(B) - 9) \cup (Len(B) - 4 .. Len(B) - 1)
        THEN 0
        ELSE IF q - 1 = 24 THEN 3
        ELSE IF q - 1 \in 25 .. 27 THEN 0
        ELSE B[q]]

\* an input that is well-formed but for a reserved field
OnlyReservedUnexpected(B) ==
    /\ Len(B) >= 48
    /\ WithExpectedReserved(B) # B
    /\ FatalChecksPass(B)

\* C5: on an otherwise well-formed input with a reserved field that differs
\* from its expected constant, read_fms returns with the object marked valid
\* and the six reserved fields holding the values of the file.
C5_ReservedNonFatal ==
    ReadFmsReturned /\ OnlyReservedUnexpected(disk.infile) =>
        /\ ~ReadFmsRaised
        /\ someFMS.validflag
        /\ someFMS.unknown1 = U32(disk.infile, 12)
        /\ someFMS.unknown2 = U32(disk.infile, 16)
        /\ someFMS.unknown3 = U32(disk.infile, 24)
        /\ someFMS.unknown4 = U32(disk.infile, 28)
        /\ someFMS.unknown5 = U32(disk.infile, Len(disk.infile) - 12)
        /\ someFMS.unknown6 = U32(disk.infile, Len(disk.infile) - 4)

\* C6: read_fms on a fresh object marks it valid if and only if every fatal
\* check passes; when one fails, read_fms raises and the object is not valid.
C6_AllOrNothing ==
    ReadFmsReturned =>
        /\ someFMS.validflag <=> FatalChecksPass(disk.infile)
        /\ ReadFmsRaised <=> ~FatalChecksPass(disk.infile)

\* file B holds the Document o under the padding law: after the 8 * n table
\* bytes and the string bytes come 0 .. 15 zero bytes that bring the data
\* section to a multiple of 16, data_size counts them, and only the footer
\* follows
PaddingLaw(B, o) ==
    LET used == 8 * o.stringcount + SumLen(o.stringdata)
        pad == (Len(B) - 48) - used
    IN  /\ pad \in 0 .. 15
        /\ pad = (16 - (used % 16)) % 16
        /\ \A q \in 32 + used .. 32 + used + pad - 1 : B[q + 1] = 0
        /\ U32(B, 4) = used + pad
        /\ U32(B, 4) % 16 = 0
        /\ FileRead(B, 32 + used + pad, 4) = MagicFEOC

\* after string_count strings file B has exactly the zero padding to the next
\* multiple of 16 and then the 16 bytes of the footer
TailOk(B) ==
    LET sc == U32(B, 20)
        e == StringsEnd(B, 32 + 8 * sc, sc)
        pad == (16 - (e % 16)) % 16
    IN  /\ e >= 0
        /\ e + pad + 16 = Len(B)
        /\ \A q \in e .. e + pad - 1 : B[q + 1] = 0

\* C7: a file accepted by read_fms has 0 .. 15 zero padding bytes after the
\* strings, data_size = 8 * string_count + string bytes + padding, a multiple
\* of 16, and file length 32 + data_size + 16; a file written by write_fms
\* obeys the same law; a non-zero padding byte, extra padding or trailing
\* bytes make read_fms reject the file.
C7_PaddingLaw ==
    /\ (FmsDriver /\ someFMS.validflag => PaddingLaw(disk.infile, someFMS))
    /\ (pc = "roundtrip_done" => PaddingLaw(disk.outfile, anotherFMS))
    /\ (pc \in {"fms_written", "binary_done", "xml_to_fms_done"}
            => PaddingLaw(disk.outfile, someFMS))
    /\ (ReadFmsReturned /\ ~TailOk(disk.infile)
            => ReadFmsRaised /\ ~someFMS.validflag)

C7_Witness ==
    /\ pc = "start_fms"
    /\ exc = Exception("AssertionError", "Found non-zero byte in expected padding")
    /\ ~TailOk(disk.infile)
    /\ ~someFMS.validflag

\* the number of string entries the records of an XML string list stand for:
\* one per record, and nullrepeatcount - 1 more for a count above 1
RECURSIVE EntriesIn(_)
EntriesIn(recs) ==
    IF recs = <<>> THEN 0
    ELSE LET rc == Head(recs).nullrepeatcount
         IN  1 + (IF rc # Absent /\ IntValue(XmlCharData(rc[1])) > 1
                  THEN IntValue(XmlCharData(rc[1])) - 1 ELSE 0)
               + EntriesIn(Tail(recs))

\* the <stringcount> element of the metadata of an XML file
DeclaredCount(xml) == xml.metadata[1].stringcount

\* object o holds exactly the entries of the records of xml
CountsEntries(o, xml) ==
    /\ o.validflag
    /\ o.stringcount = EntriesIn(xml.stringlist[1])
    /\ Len(o.stringdata) = o.stringcount
    /\ Len(o.prop1list) = o.stringcount
    /\ Len(o.prop2list) = o.stringcount

\* C8: after read_xml on a fresh object string_count is the number of entries
\* actually read, nullrepeatcount expansions included, whatever <stringcount>
\* declares; a mismatch is never a failure.
C8_CountIsActual ==
    /\ (pc \in {"parsed", "xml_to_fms_done"} => CountsEntries(someFMS, disk.xmlfile))
    /\ (pc \in {"xml_read", "roundtrip_done"} => CountsEntries(anotherFMS, disk.xmlfile))
    /\ (pc = "start_xml" /\ exc # NoException =>
            /\ DeclaredCount(disk.xmlfile) # Absent
            /\ (IntOk(XmlCharData(DeclaredCount(disk.xmlfile)[1]))
                    => IntValue(XmlCharData(DeclaredCount(disk.xmlfile)[1])) <= 0))

C8_Witness ==
    /\ pc = "parsed"
    /\ DeclaredCount(disk.xmlfile) = Present(DecStr(2))
    /\ Len(disk.xmlfile.stringlist[1]) = 3
    /\ someFMS.stringcount = 7

\* C9: a <stringcount> element that parses to an integer <= 0 makes read_xml
\* raise its assertion, leaving the fresh object not valid and without
\* strings; a value > 0 passes the assertion however many records follow.
C9_NonPositiveCountFatal ==
    pc \in {"start_xml", "parsed", "xml_to_fms_done"}
        /\ ~(pc = "start_xml" /\ exc = NoException)
        /\ DeclaredCount(disk.xmlfile) # Absent
        /\ IntOk(XmlCharData(DeclaredCount(disk.xmlfile)[1]))
    => IF IntValue(XmlCharData(DeclaredCount(disk.xmlfile)[1])) <= 0
       THEN /\ pc = "start_xml"
            /\ exc = Exception("AssertionError",
                               "<stringcount> is zero. Can't produce a valid file with no strings...")
            /\ ~someFMS.validflag
            /\ someFMS.stringdata = <<>>
            /\ someFMS.prop1list = <<>>
            /\ someFMS.prop2list = <<>>
       ELSE exc.type # "AssertionError"

C9_Witness ==
    /\ pc = "start_xml"
    /\ exc.type = "AssertionError"
    /\ DeclaredCount(disk.xmlfile) = Present(DecStr(0))
    /\ Len(disk.xmlfile.stringlist[1]) = 3
    /\ ~someFMS.validflag

\* the frame of the scan of read_fms on someFMS is the one in view
FirstScan ==
    /\ ReadFmsReturned
    /\ pc # "binary_done"
    /\ ~(pc = "fms_written" /\ exc # NoException)
    /\ frame.scanned

\* C10: read_fms reads the strings one byte at a time from offset
\* 8 * string_count of the data section, every byte at an offset below
\* data_size, stopping as soon as string_count terminators are read or the
\* bytes read reach data_size; every stored string is the bytes up to and
\* including its terminating NUL; fewer than string_count terminators within
\* data_size is a fatal error.
C10_Segmentation ==
    FirstScan =>
        LET B == disk.infile
            o == someFMS
            sc == o.stringcount
            ds == o.datasize
        IN  /\ frame.offsets = (8 * sc) .. (frame.bytesread - 1)
            /\ \A off \in frame.offsets : off < ds
            /\ frame.stringsread <= sc
            /\ (frame.stringsread = sc \/ frame.bytesread >= ds)
            /\ (frame.offsets # {} /\ frame.stringsread = sc
                    => B[32 + frame.bytesread] = 0)
            /\ (frame.offsets # {} /\ frame.stringsread < sc
                    => frame.bytesread = ds)
            /\ (frame.stringsread < sc
                    => /\ exc = Exception("AssertionError",
                                          "Did not read expected number of strings.")
                       /\ pc = "start_fms"
                       /\ ~o.validflag)
            /\ (o.validflag
                    => /\ Len(o.stringdata) = sc
                       /\ \A i \in 1 .. sc :
                             /\ Len(o.stringdata[i]) >= 1
                             /\ \A j \in 1 .. Len(o.stringdata[i]) :
                                   (o.stringdata[i][j] = 0) <=> (j = Len(o.stringdata[i]))
                       /\ Flatten(o.stringdata)
                             = SubSeq(B, 32 + 8 * sc + 1, 32 + frame.bytesread))

C10_Witness ==
    /\ pc = "start_fms"
    /\ frame.scanned
    /\ exc = Exception("AssertionError", "Did not read expected number of strings.")
    /\ someFMS.stringcount = 3
    /\ frame.stringsread = 2
    /\ frame.bytesread = someFMS.datasize

\* the 1-based indices of the entries of o that check_empty_strings keeps
KeptEntries(o) == {j \in 1 .. o.stringcount : ~o.skips[j]}

\* the number of kept entries of o before the 1-based index j
KeptBefore(o, j) == Cardinality({q \in KeptEntries(o) : q < j})

\* C11: after check_empty_strings on a freshly decoded Document every maximal
\* run of L empty entries starting at index i has skips False and zerocounts L
\* at i, skips True and zerocounts 0 on the rest of the run, and every
\* non-empty entry has skips False and zerocounts 0; write_xml emits exactly
\* one record per entry with skips False, in order and carrying its index, and
\* writes the run length only when zerocounts > 1.
C11_EmptyRuns ==
    pc = "xml_written" =>
        LET d == someFMS
            n == d.stringcount
            recs == disk.xmlfile.stringlist[1]
        IN  /\ Len(d.skips) = n /\ Len(d.zerocounts) = n
            /\ \A i \in 1 .. n, L \in 1 .. n :
                  MaximalRun(d.stringdata, i, L) =>
                     /\ ~d.skips[i] /\ d.zerocounts[i] = L
                     /\ \A j \in i + 1 .. i + L - 1 :
                           d.skips[j] /\ d.zerocounts[j] = 0
            /\ \A j \in 1 .. n :
                  ~IsEmptyEntry(d.stringdata[j]) => ~d.skips[j] /\ d.zerocounts[j] = 0
            /\ Len(recs) = Cardinality(KeptEntries(d))
            /\ \A j \in KeptEntries(d) :
                  LET rec == recs[KeptBefore(d, j) + 1]
                  IN  /\ rec.index = Present(DecStr(j - 1))
                      /\ rec.nullrepeatcount =
                            (IF d.zerocounts[j] > 1
                             THEN Present(DecStr(d.zerocounts[j])) ELSE Absent)

\* two empty strings and nothing else: one record, at index 0, with run length 2
C11_Witness ==
    /\ pc = "xml_written"
    /\ someFMS.stringdata = <<emptysample, emptysample>>
    /\ someFMS.skips = <<FALSE, TRUE>>
    /\ someFMS.zerocounts = <<2, 0>>
    /\ Len(disk.xmlfile.stringlist[1]) = 1
    /\ disk.xmlfile.stringlist[1][1].index = Present(DecStr(0))
    /\ disk.xmlfile.stringlist[1][1].nullrepeatcount = Present(DecStr(2))

\* the check of line 84 of read_fms on file B
DataSizeCheckOk(B) == Len(B) - 48 = U32(B, 4)

\* C12: the data_size field of every file written by write_fms is the length
\* of the file minus 48, whatever data_size the Document stores; read_xml
\* leaves the stored data_size at 0, and the file written from a Document of
\* read_xml passes read_fms's check of data_size against the file length.
C12_DataSizeBackPatch ==
    /\ (pc \in {"fms_written", "binary_done", "roundtrip_done", "xml_to_fms_done"}
            => DataSizeCheckOk(disk.outfile))
    /\ (pc \in {"xml_read", "roundtrip_done"} => anotherFMS.datasize = 0)
    /\ (pc \in {"parsed", "xml_to_fms_done"} => someFMS.datasize = 0)
    /\ (pc \in {"roundtrip_done", "xml_to_fms_done"}
            => read_fms_call(NewFMS, disk.outfile).exc
                  # Exception("AssertionError", "File size does not match data size reported in header. Bad file."))

\* <datasize>7</datasize> in the text, 0 in the Document, the length less 48 in the file
C12_Witness ==
    /\ pc = "xml_to_fms_done"
    /\ disk.xmlfile.metadata[1].datasize = Present(DecStr(7))
    /\ someFMS.datasize = 0
    /\ someFMS.stringcount = 7
    /\ U32(disk.outfile, 4) = Len(disk.outfile) - 48
    /\ U32(disk.outfile, 4) \notin {0, 7}

\* the object as it was when the k-th call was made
Before(k) == IF k = 1 THEN NewFMS ELSE calls[k - 1].obj

\* the methods of the encode paths
Encodes == {"write_fms", "write_xml"}

\* C13: a write_fms or write_xml call on a valid object leaves every field of
\* the object but skips and zerocounts as it was, write_fms leaves those two
\* as well, and write_xml calls with no read between them write the same text.
C13_EncodeReadOnly ==
    /\ \A k \in 1 .. Len(calls) :
          calls[k].op \in Encodes /\ Before(k).validflag =>
             /\ [calls[k].obj EXCEPT !.skips = Before(k).skips,
                                     !.zerocounts = Before(k).zerocounts] = Before(k)
             /\ (calls[k].op = "write_fms" => calls[k].obj = Before(k))
    /\ \A i \in 1 .. Len(calls), j \in 1 .. Len(calls) :
          /\ i < j
          /\ calls[i].op = "write_xml" /\ calls[j].op = "write_xml"
          /\ Before(i).validflag
          /\ \A m \in i + 1 .. j - 1 : calls[m].op \in Encodes \cup {"check_empty_strings"}
          => /\ calls[j].exc = calls[i].exc
             /\ calls[j].out = calls[i].out

\* read_fms of "a" and two empty strings, then write_xml, write_fms, write_xml:
\* the second text has the run length 2 as the first has, and the helper
\* lists have grown
C13_Witness ==
    /\ Len(calls) >= 4
    /\ calls[1].op = "read_fms" /\ calls[1].obj.validflag /\ calls[1].obj.stringcount = 3
    /\ calls[2].op = "write_xml" /\ calls[3].op = "write_fms" /\ calls[4].op = "write_xml"
    /\ calls[4].exc = NoException
    /\ calls[4].out.xml.wellformed
    /\ Len(calls[4].out.xml.stringlist[1]) = 2
    /\ calls[4].out.xml.stringlist[1][2].nullrepeatcount = Present(DecStr(2))
    /\ calls[4].out = calls[2].out
    /\ Len(calls[4].obj.zerocounts) = 6

\* the lists of o have stringcount entries each
Consistent(o) ==
    /\ Len(o.prop1list) = o.stringcount
    /\ Len(o.prop2list) = o.stringcount
    /\ Len(o.stringdata) = o.stringcount

\* C14: over any sequence of read_fms, read_xml, write_fms and write_xml calls
\* on one object, whenever validflag is True the three lists have stringcount
\* entries each; and write_fms, write_xml and check_empty_strings raise and
\* write nothing whenever validflag is False.
C14_ValidityInvariant ==
    /\ \A k \in 1 .. Len(calls) : calls[k].obj.validflag => Consistent(calls[k].obj)
    /\ \A k \in 1 .. Len(calls) :
          ~Before(k).validflag /\ calls[k].op \in Encodes \cup {"check_empty_strings"} =>
             /\ calls[k].exc.type = "AssertionError"
             /\ ~calls[k].out.written
             /\ calls[k].obj = Before(k)

====
